---- MODULE Spec2Model ----
(***************************************************************************)
(* Model of src/src/07_practical_example.rs: the simulated request         *)
(* dispatcher (LoadBalancer + worker pool + generator + collector +        *)
(* monitor) driven by run_server, and graceful_shutdown_demo, which main    *)
(* runs after run_server has returned.                                     *)
(*                                                                         *)
(* Time is abstracted: a sleep is a step that may be taken at any moment,  *)
(* a timeout may elapse whenever the wrapped future is suspended.          *)
(***************************************************************************)
EXTENDS Integers, Sequences, FiniteSets, TLC

\* ---------------------------------------------------------------- bounds
\* num_workers is 4 in the source; the model explores 1..MaxWorkers.
MaxWorkers == 2
\* max_concurrent is 3 in run_server; the model explores 1..MaxConcurrent.
MaxConcurrent == 2
\* num_requests is 20 in run_server; the model explores 1..MaxRequests.
MaxRequests == 7
\* mpsc::channel(100) for requests; the model uses a smaller capacity.
RequestChannelCap == 2
\* mpsc::channel(100) for responses; the model uses a smaller capacity.
ResponseChannelCap == 1
\* a listener of graceful_shutdown_demo runs any number of 500 ms work units
\* before the signal; the model explores 0..MaxUnits of them.
MaxUnits == 2

\* ------------------------------------------------------ program constants
\* request.id % 7 == 0 is the simulated failure
FailEvery == 7
StatusOk == 200
StatusError == 500
\* path is "/api/endpoint{i % 5}", processing_time is 100 + (i % 5) * 50 ms
PathCount == 5
BaseMillis == 100
StepMillis == 50
\* graceful_shutdown_demo: for i in 1..=3, broadcast::channel::<()>(1)
NumListeners == 3
BroadcastCap == 1

VARIABLES
    num_workers,     \* number of spawned workers (LoadBalancer::new)
    max_concurrent,  \* Semaphore::new(max_concurrent)
    num_requests,    \* run_server: num_requests (= expected_count)
    request_q,       \* contents of the request channel (request_tx/request_rx)
    response_q,      \* contents of the response channel (response_tx/response_rx)
    permits,         \* semaphore.available_permits()
    rx_lock,         \* holder of the Mutex around request_rx, or NoWorker
    wpc,             \* worker_id -> position of the worker task
    wreq,            \* worker_id -> Option<Request> held by the worker
    wresp,           \* worker_id -> Option<Response> built by the worker
    stats,           \* ServerStats
    generator,       \* request_generator: position and loop variable i
    collector,       \* response_collector: position and received
    monitor,         \* monitor_task: position
    lb_alive,        \* TRUE until run_server drops the LoadBalancer
    accepted,        \* history: ids whose submit_request returned Ok
    dequeued,        \* history: ids in the order workers received them
    started,         \* history: id -> number of handle_request calls
    sent,            \* history: ids whose Response entered the response channel
    collected,       \* history: request_ids in the order the collector got them
    at_close,        \* history: ids queued when the LoadBalancer was dropped
    late_starts,     \* history: worker_id -> handle_request calls begun after the drop
    sd_main,         \* graceful_shutdown_demo: position and loop variable i
    sends,           \* number of values sent on shutdown_tx so far
    rx_pos,          \* listener -> number of values its shutdown_rx is past
    lpc,             \* listener -> position of the spawned task
    units,           \* history: listener -> work units it has printed
    units_at_fire    \* history: units at the moment of shutdown_tx.send

vars == <<num_workers, max_concurrent, num_requests, request_q, response_q,
          permits, rx_lock, wpc, wreq, wresp, stats, generator, collector,
          monitor, lb_alive, accepted, dequeued, started, sent, collected,
          at_close, late_starts, sd_main, sends, rx_pos, lpc, units,
          units_at_fire>>

demo == <<sd_main, sends, rx_pos, lpc, units, units_at_fire>>
config == <<num_workers, max_concurrent, num_requests>>
history == <<accepted, dequeued, started, sent, collected, at_close,
            late_starts>>
server == <<config, request_q, response_q, permits, rx_lock, wpc, wreq, wresp,
            stats, generator, collector, monitor, lb_alive, history>>

\* ------------------------------------------------------------- data types
NoWorker == -1

\* for i in 1..=3
Listeners == 1 .. NumListeners

Workers == 0 .. (num_workers - 1)

Request(i) ==
    [id |-> i,
     path |-> <<"/api/endpoint", i % PathCount>>,
     processing_time |-> BaseMillis + (i % PathCount) * StepMillis]

StatusByPath(id) == IF id % PathCount = 0 THEN StatusError ELSE StatusOk

Status(id) == IF id % FailEvery = 0 THEN StatusError ELSE StatusOk

ResponseIdFromPath(request) ==
    [request_id |-> request.id % PathCount,
     status |-> Status(request.id),
     body |-> <<"Response for ", request.path>>]

Response(request) ==
    [request_id |-> request.id,
     status |-> Status(request.id),
     body |-> <<"Response for ", request.path>>]

\* ServerStats::record_request / record_success / record_failure
record_request_twice(s) == [s EXCEPT !.total_requests = @ + 2]
record_request(s) == [s EXCEPT !.total_requests = @ + 1]
record_success(s) == [s EXCEPT !.successful_requests = @ + 1]
\* fetch_sub in place of fetch_add
record_failure_sub(s) == [s EXCEPT !.failed_requests = @ - 1]
record_failure(s) == [s EXCEPT !.failed_requests = @ + 1]

record_outcome_success_only(s, id) ==
    IF id % FailEvery = 0 THEN s ELSE record_success(s)

\* the failure branch falling through into the success branch
record_outcome_both(s, id) ==
    IF id % FailEvery = 0 THEN record_success(record_failure(s))
    ELSE record_success(s)

\* the status decision of handle_request, as far as it touches the stats
record_outcome(s, id) ==
    IF id % FailEvery = 0 THEN record_failure(s) ELSE record_success(s)

HasCapacityUnbounded(q, cap) == TRUE

\* bounded mpsc channel: send completes only while there is room
HasCapacity(q, cap) == Len(q) < cap

AfterRecvPeek(q) == q

\* mpsc::Receiver::recv removes the value it returns
AfterRecv(q) == Tail(q)

CanAcquireAlways(p) == TRUE

\* Semaphore::acquire completes only while a permit is available
CanAcquire(p) == p > 0
AfterAcquire(p) == p - 1

AfterReleaseLeak(p) == p

AfterReleaseTwice(p) == p + 2

\* dropping the SemaphorePermit (_permit) gives the permit back
AfterRelease(p) == p + 1

\* semaphore.available_permits()
available_slots == permits

HoldsPermit(w) == wpc[w] \in {"handle", "sleep", "send"}
Exited(w) == wpc[w] = "exited"
AllExited == \A w \in Workers : Exited(w)

\* request_tx and response_rx are fields of the LoadBalancer, never cloned:
\* they go when the last Arc<LoadBalancer> goes
RequestSenderDropped == ~lb_alive
ResponseReceiverDropped == ~lb_alive

\* the request receiver lives in the worker tasks (Arc clones of request_rx):
\* it is dropped, and what it still buffers destroyed, when the last one ends
RequestReceiverDropped == AllExited
LastWorker(w) == \A v \in Workers \ {w} : Exited(v)
AfterWorkerExit(w, q) == IF LastWorker(w) THEN <<>> ELSE q

\* response_tx itself is dropped in LoadBalancer::new; the clones live in the
\* worker tasks
ResponseSendersDropped == AllExited

\* ------------------------------------------------------------------- Init
Init ==
    /\ num_workers \in 1 .. MaxWorkers
    /\ max_concurrent \in 1 .. MaxConcurrent
    /\ num_requests \in 1 .. MaxRequests
    /\ request_q = <<>>
    /\ response_q = <<>>
    /\ permits = max_concurrent
    /\ rx_lock = NoWorker
    /\ wpc = [w \in Workers |-> "lock"]
    /\ wreq = [w \in Workers |-> <<>>]
    /\ wresp = [w \in Workers |-> <<>>]
    /\ stats = [total_requests |-> 0, successful_requests |-> 0,
                failed_requests |-> 0]
    /\ generator = [pc |-> "submit", i |-> 1]
    /\ collector = [pc |-> "recv", received |-> 0]
    /\ monitor = [pc |-> "tick"]
    /\ lb_alive = TRUE
    /\ accepted = {}
    /\ dequeued = <<>>
    /\ started = [i \in 1 .. MaxRequests |-> 0]
    /\ sent = {}
    /\ collected = <<>>
    /\ at_close = {}
    /\ late_starts = [w \in Workers |-> 0]
    /\ sd_main = [pc |-> "idle", i |-> 1]
    /\ sends = 0
    /\ rx_pos = [l \in Listeners |-> 0]
    /\ lpc = [l \in Listeners |-> "unspawned"]
    /\ units = [l \in Listeners |-> 0]
    /\ units_at_fire = [l \in Listeners |-> 0]

\* ---------------------------------------------------------------- workers
\* let mut rx = rx.lock().await
WorkerLock(w) ==
    /\ wpc[w] = "lock"
    /\ rx_lock = NoWorker
    /\ rx_lock' = w
    /\ wpc' = [wpc EXCEPT ![w] = "recv"]
    /\ UNCHANGED <<demo, config, request_q, response_q, permits, wreq, wresp, stats,
                   generator, collector, monitor, lb_alive, history>>

\* the newest queued request handed out instead of the oldest
WorkerRecvSomeLifo(w) ==
    /\ wpc[w] = "recv"
    /\ request_q # <<>>
    /\ wreq' = [wreq EXCEPT ![w] = <<request_q[Len(request_q)]>>]
    /\ request_q' = SubSeq(request_q, 1, Len(request_q) - 1)
    /\ dequeued' = Append(dequeued, request_q[Len(request_q)].id)
    /\ rx_lock' = NoWorker
    /\ wpc' = [wpc EXCEPT ![w] = "acquire"]
    /\ UNCHANGED <<demo, config, response_q, permits, wresp, stats, generator,
                   collector, monitor, lb_alive, accepted, started, sent,
                   collected, at_close, late_starts>>

\* the MutexGuard kept alive past the block
WorkerRecvSomeKeepLock(w) ==
    /\ wpc[w] = "recv"
    /\ request_q # <<>>
    /\ wreq' = [wreq EXCEPT ![w] = <<Head(request_q)>>]
    /\ request_q' = AfterRecv(request_q)
    /\ dequeued' = Append(dequeued, Head(request_q).id)
    /\ rx_lock' = rx_lock
    /\ wpc' = [wpc EXCEPT ![w] = "acquire"]
    /\ UNCHANGED <<demo, config, response_q, permits, wresp, stats, generator,
                   collector, monitor, lb_alive, accepted, started, sent,
                   collected, at_close, late_starts>>

\* rx.recv().await returns Some(request); the guard is dropped
WorkerRecvSome(w) ==
    /\ wpc[w] = "recv"
    /\ request_q # <<>>
    /\ wreq' = [wreq EXCEPT ![w] = <<Head(request_q)>>]
    /\ request_q' = AfterRecv(request_q)
    /\ dequeued' = Append(dequeued, Head(request_q).id)
    /\ rx_lock' = NoWorker
    /\ wpc' = [wpc EXCEPT ![w] = "acquire"]
    /\ UNCHANGED <<demo, config, response_q, permits, wresp, stats, generator,
                   collector, monitor, lb_alive, accepted, started, sent,
                   collected, at_close, late_starts>>

\* None taken from an empty channel whose sender is still alive (try_recv)
WorkerRecvNoneWhileOpen(w) ==
    /\ wpc[w] = "recv"
    /\ request_q = <<>>
    /\ rx_lock' = NoWorker
    /\ wpc' = [wpc EXCEPT ![w] = "exited"]
    /\ request_q' = AfterWorkerExit(w, request_q)
    /\ UNCHANGED <<demo, config, response_q, permits, wreq, wresp, stats, generator,
                   collector, monitor, lb_alive, history>>

\* rx.recv().await returns None (every sender gone, nothing buffered): break
WorkerRecvNone(w) ==
    /\ wpc[w] = "recv"
    /\ request_q = <<>>
    /\ RequestSenderDropped
    /\ rx_lock' = NoWorker
    /\ wpc' = [wpc EXCEPT ![w] = "exited"]
    /\ request_q' = AfterWorkerExit(w, request_q)
    /\ UNCHANGED <<demo, config, response_q, permits, wreq, wresp, stats, generator,
                   collector, monitor, lb_alive, history>>

\* let _permit = sem.acquire().await.unwrap()
WorkerAcquire(w) ==
    /\ wpc[w] = "acquire"
    /\ CanAcquire(permits)
    /\ permits' = AfterAcquire(permits)
    /\ wpc' = [wpc EXCEPT ![w] = "handle"]
    /\ UNCHANGED <<demo, config, request_q, response_q, rx_lock, wreq, wresp, stats,
                   generator, collector, monitor, lb_alive, history>>

\* handle_request up to the sleep: stats.record_request()
WorkerRecord(w) ==
    /\ wpc[w] = "handle"
    /\ stats' = record_request(stats)
    /\ started' = [started EXCEPT ![wreq[w][1].id] = @ + 1]
    /\ wpc' = [wpc EXCEPT ![w] = "sleep"]
    /\ UNCHANGED <<demo, config, request_q, response_q, permits, rx_lock, wreq,
                   wresp, generator, collector, monitor, lb_alive, accepted,
                   dequeued, sent, collected, at_close>>
    /\ late_starts' = IF lb_alive THEN late_starts
                      ELSE [late_starts EXCEPT ![w] = @ + 1]

\* the permit scoped to handle_request only, dropped before tx.send
WorkerFinishReleasesPermit(w) ==
    /\ wpc[w] = "sleep"
    /\ stats' = record_outcome(stats, wreq[w][1].id)
    /\ wresp' = [wresp EXCEPT ![w] = <<Response(wreq[w][1])>>]
    /\ wreq' = [wreq EXCEPT ![w] = <<>>]
    /\ permits' = AfterRelease(permits)
    /\ wpc' = [wpc EXCEPT ![w] = "send"]
    /\ UNCHANGED <<demo, config, request_q, response_q, rx_lock, generator,
                   collector, monitor, lb_alive, history>>

\* handle_request after the sleep: status decision, Response construction
WorkerFinish(w) ==
    /\ wpc[w] = "sleep"
    /\ stats' = record_outcome(stats, wreq[w][1].id)
    /\ wresp' = [wresp EXCEPT ![w] = <<Response(wreq[w][1])>>]
    /\ wreq' = [wreq EXCEPT ![w] = <<>>]
    /\ wpc' = [wpc EXCEPT ![w] = "send"]
    /\ UNCHANGED <<demo, config, request_q, response_q, permits, rx_lock, generator,
                   collector, monitor, lb_alive, history>>

\* a worker that treats a 500 as fatal: the Response is not sent and the loop
\* is left
WorkerSendOkExitOn500(w) ==
    /\ wpc[w] = "send"
    /\ ~ResponseReceiverDropped
    /\ HasCapacity(response_q, ResponseChannelCap)
    /\ IF wresp[w][1].status = StatusError
       THEN /\ wpc' = [wpc EXCEPT ![w] = "exited"]
            /\ request_q' = AfterWorkerExit(w, request_q)
            /\ UNCHANGED <<response_q, sent>>
       ELSE /\ response_q' = Append(response_q, wresp[w][1])
            /\ sent' = sent \cup {wresp[w][1].request_id}
            /\ wpc' = [wpc EXCEPT ![w] = "lock"]
            /\ UNCHANGED request_q
    /\ wresp' = [wresp EXCEPT ![w] = <<>>]
    /\ permits' = AfterRelease(permits)
    /\ UNCHANGED <<demo, config, rx_lock, wreq, stats, generator,
                   collector, monitor, lb_alive, accepted, dequeued, started,
                   collected, at_close, late_starts>>

\* responses released in request order: a Response waits for every smaller
\* accepted id to be sent first
WorkerSendOkInOrder(w) ==
    /\ wpc[w] = "send"
    /\ ~ResponseReceiverDropped
    /\ HasCapacity(response_q, ResponseChannelCap)
    /\ \A i \in accepted : i < wresp[w][1].request_id => i \in sent
    /\ response_q' = Append(response_q, wresp[w][1])
    /\ sent' = sent \cup {wresp[w][1].request_id}
    /\ wresp' = [wresp EXCEPT ![w] = <<>>]
    /\ permits' = AfterRelease(permits)
    /\ wpc' = [wpc EXCEPT ![w] = "lock"]
    /\ UNCHANGED <<demo, config, request_q, rx_lock, wreq, stats, generator,
                   collector, monitor, lb_alive, accepted, dequeued, started,
                   collected, at_close, late_starts>>

\* the permit forgotten (SemaphorePermit::forget) instead of dropped
WorkerSendOkKeepPermit(w) ==
    /\ wpc[w] = "send"
    /\ ~ResponseReceiverDropped
    /\ HasCapacity(response_q, ResponseChannelCap)
    /\ response_q' = Append(response_q, wresp[w][1])
    /\ sent' = sent \cup {wresp[w][1].request_id}
    /\ wresp' = [wresp EXCEPT ![w] = <<>>]
    /\ wpc' = [wpc EXCEPT ![w] = "lock"]
    /\ UNCHANGED <<demo, config, request_q, permits, rx_lock, wreq, stats,
                   generator, collector, monitor, lb_alive, accepted, dequeued,
                   started, collected, at_close, late_starts>>

\* tx.send(response).await is Ok; the arm ends and _permit is dropped (no
\* suspension point lies between the two)
WorkerSendOk(w) ==
    /\ wpc[w] = "send"
    /\ ~ResponseReceiverDropped
    /\ HasCapacity(response_q, ResponseChannelCap)
    /\ response_q' = Append(response_q, wresp[w][1])
    /\ sent' = sent \cup {wresp[w][1].request_id}
    /\ wresp' = [wresp EXCEPT ![w] = <<>>]
    /\ permits' = AfterRelease(permits)
    /\ wpc' = [wpc EXCEPT ![w] = "lock"]
    /\ UNCHANGED <<demo, config, request_q, rx_lock, wreq, stats, generator,
                   collector, monitor, lb_alive, accepted, dequeued, started,
                   collected, at_close, late_starts>>

\* the Err arm with the permit kept instead of dropped
WorkerSendErrLeak(w) ==
    /\ wpc[w] = "send"
    /\ ResponseReceiverDropped
    /\ wresp' = [wresp EXCEPT ![w] = <<>>]
    /\ permits' = permits
    /\ wpc' = [wpc EXCEPT ![w] = "exited"]
    /\ request_q' = AfterWorkerExit(w, request_q)
    /\ UNCHANGED <<demo, config, response_q, rx_lock, wreq, stats, generator,
                   collector, monitor, lb_alive, history>>

\* the Err arm ending every worker task instead of the one that saw it
WorkerSendErrAbortAll(w) ==
    /\ wpc[w] = "send"
    /\ ResponseReceiverDropped
    /\ wresp' = [v \in Workers |-> <<>>]
    /\ wreq' = [v \in Workers |-> <<>>]
    /\ permits' = max_concurrent
    /\ wpc' = [v \in Workers |-> "exited"]
    /\ rx_lock' = NoWorker
    /\ request_q' = <<>>
    /\ UNCHANGED <<demo, config, response_q, stats, generator,
                   collector, monitor, lb_alive, history>>

\* try_send: a full response channel taken for an error as well
WorkerSendErrOnFull(w) ==
    /\ wpc[w] = "send"
    /\ ResponseReceiverDropped \/ ~HasCapacity(response_q, ResponseChannelCap)
    /\ wresp' = [wresp EXCEPT ![w] = <<>>]
    /\ permits' = AfterRelease(permits)
    /\ wpc' = [wpc EXCEPT ![w] = "exited"]
    /\ request_q' = AfterWorkerExit(w, request_q)
    /\ UNCHANGED <<demo, config, response_q, rx_lock, wreq, stats, generator,
                   collector, monitor, lb_alive, history>>

\* continue in place of break: the worker goes round its loop again
WorkerSendErrRetry(w) ==
    /\ wpc[w] = "send"
    /\ ResponseReceiverDropped
    /\ wresp' = [wresp EXCEPT ![w] = <<>>]
    /\ permits' = AfterRelease(permits)
    /\ wpc' = [wpc EXCEPT ![w] = "lock"]
    /\ UNCHANGED <<demo, config, request_q, response_q, rx_lock, wreq, stats,
                   generator, collector, monitor, lb_alive, history>>

\* tx.send(response).await is Err (receiver dropped): break, _permit dropped
WorkerSendErr(w) ==
    /\ wpc[w] = "send"
    /\ ResponseReceiverDropped
    /\ wresp' = [wresp EXCEPT ![w] = <<>>]
    /\ permits' = AfterRelease(permits)
    /\ wpc' = [wpc EXCEPT ![w] = "exited"]
    /\ request_q' = AfterWorkerExit(w, request_q)
    /\ UNCHANGED <<demo, config, response_q, rx_lock, wreq, stats, generator,
                   collector, monitor, lb_alive, history>>

\* try_send with the result ignored: a request offered to a full channel is
\* reported as submitted and lost
GeneratorSubmitDropWhenFull ==
    /\ generator.pc = "submit"
    /\ IF RequestReceiverDropped
       THEN /\ generator' = [generator EXCEPT !.pc = "failed"]
            /\ UNCHANGED <<request_q, accepted>>
       ELSE /\ request_q' = IF HasCapacity(request_q, RequestChannelCap)
                            THEN Append(request_q, Request(generator.i))
                            ELSE request_q
            /\ accepted' = accepted \cup {generator.i}
            /\ generator' = [generator EXCEPT !.pc = "sleep"]
    /\ UNCHANGED <<demo, config, response_q, permits, rx_lock, wpc, wreq, wresp,
                   stats, collector, monitor, lb_alive, dequeued, started,
                   sent, collected, at_close, late_starts>>

\* -------------------------------------------------------------- generator
\* match lb.submit_request(request).await: Err(e) => break once the receiver
\* is gone, Ok(_) once the channel has taken the request
GeneratorSubmit ==
    /\ generator.pc = "submit"
    /\ IF RequestReceiverDropped
       THEN /\ generator' = [generator EXCEPT !.pc = "failed"]
            /\ UNCHANGED <<request_q, accepted>>
       ELSE /\ HasCapacity(request_q, RequestChannelCap)
            /\ request_q' = Append(request_q, Request(generator.i))
            /\ accepted' = accepted \cup {generator.i}
            /\ generator' = [generator EXCEPT !.pc = "sleep"]
    /\ UNCHANGED <<demo, config, response_q, permits, rx_lock, wpc, wreq, wresp,
                   stats, collector, monitor, lb_alive, dequeued, started,
                   sent, collected, at_close, late_starts>>

\* the loop going round without advancing i
GeneratorSleepSameId ==
    /\ generator.pc = "sleep"
    /\ generator' = IF generator.i < num_requests
                    THEN [pc |-> "submit", i |-> generator.i]
                    ELSE [generator EXCEPT !.pc = "done"]
    /\ UNCHANGED <<demo, config, request_q, response_q, permits, rx_lock, wpc, wreq,
                   wresp, stats, collector, monitor, lb_alive, history>>

\* sleep(50ms).await, then the next iteration of for i in 1..=num_requests
GeneratorSleep ==
    /\ generator.pc = "sleep"
    /\ generator' = IF generator.i < num_requests
                    THEN [pc |-> "submit", i |-> generator.i + 1]
                    ELSE [generator EXCEPT !.pc = "done"]
    /\ UNCHANGED <<demo, config, request_q, response_q, permits, rx_lock, wpc, wreq,
                   wresp, stats, collector, monitor, lb_alive, history>>

\* -------------------------------------------------------------- collector
expected_count == num_requests

CollectorReceiveOffByOne ==
    /\ collector.pc = "recv"
    /\ response_q # <<>>
    /\ response_q' = AfterRecv(response_q)
    /\ collected' = Append(collected, Head(response_q).request_id)
    /\ collector' = [pc |-> IF collector.received + 1 <= expected_count
                            THEN "recv" ELSE "count",
                     received |-> collector.received + 1]
    /\ UNCHANGED <<demo, config, request_q, permits, rx_lock, wpc, wreq, wresp,
                   stats, generator, monitor, lb_alive, accepted, dequeued,
                   started, sent, at_close, late_starts>>

\* timeout(10s, lb.get_response()) is Ok(Some(response)), or Ok(None) once
\* every response sender is gone and nothing is buffered
CollectorReceive ==
    /\ collector.pc = "recv"
    /\ IF response_q # <<>>
       THEN /\ response_q' = AfterRecv(response_q)
            /\ collected' = Append(collected, Head(response_q).request_id)
            /\ collector' = [pc |-> IF collector.received + 1 < expected_count
                                    THEN "recv" ELSE "count",
                             received |-> collector.received + 1]
       ELSE /\ ResponseSendersDropped
            /\ collector' = [collector EXCEPT !.pc = "closed"]
            /\ UNCHANGED <<response_q, collected>>
    /\ UNCHANGED <<demo, config, request_q, permits, rx_lock, wpc, wreq, wresp,
                   stats, generator, monitor, lb_alive, accepted, dequeued,
                   started, sent, at_close, late_starts>>

\* get_response awaited without the timeout wrapper
CollectorTimeoutNever ==
    /\ FALSE
    /\ UNCHANGED vars

\* timeout(10s, lb.get_response()) is Err(_): nothing arrived in time
CollectorTimeout ==
    /\ collector.pc = "recv"
    /\ response_q = <<>>
    /\ collector' = [collector EXCEPT !.pc = "timeout"]
    /\ UNCHANGED <<demo, config, request_q, response_q, permits, rx_lock, wpc, wreq,
                   wresp, stats, generator, monitor, lb_alive, history>>

\* ---------------------------------------------------------------- monitor
MonitorTickTakingPermit ==
    /\ monitor.pc = "tick"
    /\ permits' = IF permits > 0 THEN permits - 1 ELSE permits
    /\ \E next \in {"tick", "done"} : monitor' = [pc |-> next]
    /\ UNCHANGED <<demo, config, request_q, response_q, rx_lock, wpc, wreq, wresp,
                   stats, generator, collector, lb_alive, history>>

\* interval.tick().await; println!(lb.available_slots()), a read that leaves
\* no trace in the state; then the elapsed() check of the while loop
MonitorTick ==
    /\ monitor.pc = "tick"
    /\ available_slots \in Int
    /\ \E next \in {"tick", "done"} : monitor' = [pc |-> next]
    /\ UNCHANGED <<demo, config, request_q, response_q, permits, rx_lock, wpc, wreq,
                   wresp, stats, generator, collector, lb_alive, history>>

\* ------------------------------------------------------------- run_server
\* after join!(generator, collector, monitor) and print_stats the last
\* Arc<LoadBalancer> goes: request_tx and response_rx are dropped in one go,
\* the responses still buffered are destroyed with the receiver
RunServerDrop ==
    /\ lb_alive
    /\ generator.pc \in {"done", "failed"}
    /\ collector.pc \in {"count", "closed", "timeout"}
    /\ monitor.pc = "done"
    /\ lb_alive' = FALSE
    /\ response_q' = <<>>
    /\ at_close' = {request_q[k].id : k \in 1 .. Len(request_q)}
    /\ UNCHANGED <<demo, config, request_q, permits, rx_lock, wpc, wreq, wresp,
                   stats, generator, collector, monitor, accepted, dequeued,
                   started, sent, collected, late_starts>>

\* ------------------------------------------------------------------- Next
\* main: run_server().await has returned, graceful_shutdown_demo() is called
MainStartDemo ==
    /\ sd_main.pc = "idle"
    /\ ~lb_alive
    /\ sd_main' = [pc |-> "spawn", i |-> 1]
    /\ UNCHANGED <<server, sends, rx_pos, lpc, units, units_at_fire>>

WorkerStep(w) ==
    \/ WorkerLock(w)
    \/ WorkerRecvSome(w)
    \/ WorkerRecvNone(w)
    \/ WorkerAcquire(w)
    \/ WorkerRecord(w)
    \/ WorkerFinish(w)
    \/ WorkerSendOk(w)
    \/ WorkerSendErr(w)

Next ==
    \/ \E w \in Workers : WorkerLock(w)
    \/ \E w \in Workers : WorkerRecvSome(w)
    \/ \E w \in Workers : WorkerRecvNone(w)
    \/ \E w \in Workers : WorkerAcquire(w)
    \/ \E w \in Workers : WorkerRecord(w)
    \/ \E w \in Workers : WorkerFinish(w)
    \/ \E w \in Workers : WorkerSendOk(w)
    \/ \E w \in Workers : WorkerSendErr(w)
    \/ GeneratorSubmit
    \/ GeneratorSleep
    \/ CollectorReceive
    \/ CollectorTimeout
    \/ MonitorTick
    \/ RunServerDrop
    \/ MainStartDemo

Spec == Init /\ [][Next]_vars

TypeOK ==
    /\ permits \in 0 .. max_concurrent
    /\ rx_lock \in Workers \cup {NoWorker}
    /\ Len(request_q) <= RequestChannelCap
    /\ Len(response_q) <= ResponseChannelCap
    /\ sd_main.i \in Listeners
    /\ sends \in 0 .. 1
    /\ \A l \in Listeners : rx_pos[l] \in 0 .. sends /\ units[l] \in 0 .. MaxUnits

\* ------------------------------------------------------------- fairness
\* The tokio scheduler polls every woken task again, so a step of a task that
\* stays enabled is eventually taken.  The timeout, the monitor and the final
\* drop get no fairness: whether they happen depends on elapsed time.
FairWorkerStep(w) == w \in Workers /\ WorkerStep(w)

FairSpec ==
    /\ Spec
    /\ \A w \in 0 .. (MaxWorkers - 1) : WF_vars(FairWorkerStep(w))
    /\ WF_vars(GeneratorSubmit)
    /\ WF_vars(GeneratorSleep)
    /\ WF_vars(CollectorReceive)

\* One await of timeout(10 s, lb.get_response()): the collector task is polled
\* when a Response arrives or the channel closes, and the timer wakes it after
\* 10 s otherwise, so the await resolves once it stays resolvable.  Nothing is
\* assumed about the other tasks.
CollectorStep == CollectorReceive \/ CollectorTimeout

CollectorFairSpec == Spec /\ WF_vars(CollectorStep)

\* ------------------------------------------------- graceful_shutdown_demo
RecvReadyNever(l) == FALSE

\* shutdown_rx.recv() completes once a value was sent after the position the
\* receiver got from subscribe() or from its last recv
RecvReady(l) == rx_pos[l] < sends

\* let mut shutdown_rx = shutdown_tx.subscribe(); tokio::spawn(..);
\* tasks.push(task)
ShutdownSpawn ==
    /\ sd_main.pc = "spawn"
    /\ rx_pos' = [rx_pos EXCEPT ![sd_main.i] = sends]
    /\ lpc' = [lpc EXCEPT ![sd_main.i] = "select"]
    /\ sd_main' = IF sd_main.i < NumListeners
                  THEN [sd_main EXCEPT !.i = @ + 1]
                  ELSE [pc |-> "sleep", i |-> 1]
    /\ UNCHANGED <<server, sends, units, units_at_fire>>

\* sleep(2 s); let _ = shutdown_tx.send(())
ShutdownFire ==
    /\ sd_main.pc = "sleep"
    /\ sends' = sends + 1
    /\ sd_main' = [pc |-> "join", i |-> 1]
    /\ units_at_fire' = units
    /\ UNCHANGED <<server, rx_pos, lpc, units>>

ShutdownJoinNoWait ==
    /\ sd_main.pc = "join"
    /\ sd_main' = IF sd_main.i < NumListeners
                  THEN [sd_main EXCEPT !.i = @ + 1]
                  ELSE [pc |-> "report", i |-> 1]
    /\ UNCHANGED <<server, sends, rx_pos, lpc, units, units_at_fire>>

\* for task in tasks { let _ = task.await; }
ShutdownJoin ==
    /\ sd_main.pc = "join"
    /\ lpc[sd_main.i] = "done"
    /\ sd_main' = IF sd_main.i < NumListeners
                  THEN [sd_main EXCEPT !.i = @ + 1]
                  ELSE [pc |-> "report", i |-> 1]
    /\ UNCHANGED <<server, sends, rx_pos, lpc, units, units_at_fire>>

\* the closing println of graceful_shutdown_demo
ShutdownReport ==
    /\ sd_main.pc = "report"
    /\ sd_main' = [sd_main EXCEPT !.pc = "done"]
    /\ UNCHANGED <<server, sends, rx_pos, lpc, units, units_at_fire>>

\* recv() hands over the next value and moves the receiver past it; a receiver
\* more than BroadcastCap values behind gets Err(Lagged) and is moved to the
\* oldest value still kept.  The select arm `_ = shutdown_rx.recv()` matches
\* either result.
AfterBroadcastRecv(pos) ==
    IF sends - pos > BroadcastCap THEN sends - BroadcastCap ELSE pos + 1

\* first poll of a select!: the 500 ms sleep is new and cannot be ready, so
\* the recv branch is taken if a value is waiting, else the task suspends
ListenerPoll(l) ==
    /\ lpc[l] = "select"
    /\ IF RecvReady(l)
       THEN /\ rx_pos' = [rx_pos EXCEPT ![l] = AfterBroadcastRecv(@)]
            /\ lpc' = [lpc EXCEPT ![l] = "cleanup"]
       ELSE /\ lpc' = [lpc EXCEPT ![l] = "waiting"]
            /\ UNCHANGED rx_pos
    /\ UNCHANGED <<server, sd_main, sends, units, units_at_fire>>

\* the recv arm completing although nothing was sent to this receiver
ListenerSignalSpurious(l) ==
    /\ lpc[l] = "waiting"
    /\ lpc' = [lpc EXCEPT ![l] = "cleanup"]
    /\ UNCHANGED <<server, sd_main, sends, rx_pos, units, units_at_fire>>

\* _ = shutdown_rx.recv() => { println; break }
ListenerSignal(l) ==
    /\ lpc[l] = "waiting"
    /\ RecvReady(l)
    /\ rx_pos' = [rx_pos EXCEPT ![l] = AfterBroadcastRecv(@)]
    /\ lpc' = [lpc EXCEPT ![l] = "cleanup"]
    /\ UNCHANGED <<server, sd_main, sends, units, units_at_fire>>

\* a work unit that loses the value sent meanwhile (the receiver is made
\* anew in every iteration)
ListenerWorkDropsSignal(l) ==
    /\ lpc[l] = "waiting"
    /\ units[l] < MaxUnits
    /\ units' = [units EXCEPT ![l] = @ + 1]
    /\ rx_pos' = [rx_pos EXCEPT ![l] = sends]
    /\ lpc' = [lpc EXCEPT ![l] = "select"]
    /\ UNCHANGED <<server, sd_main, sends, units_at_fire>>

\* _ = sleep(500 ms) => { println }: one work unit, then the loop selects
\* again; it may win the race with a value that arrived at the same moment
ListenerWork(l) ==
    /\ lpc[l] = "waiting"
    /\ units[l] < MaxUnits
    /\ units' = [units EXCEPT ![l] = @ + 1]
    /\ lpc' = [lpc EXCEPT ![l] = "select"]
    /\ UNCHANGED <<server, sd_main, sends, rx_pos, units_at_fire>>

ListenerCleanupReenter(l) ==
    /\ lpc[l] = "cleanup"
    /\ lpc' = [lpc EXCEPT ![l] = "waiting"]
    /\ UNCHANGED <<server, sd_main, sends, rx_pos, units, units_at_fire>>

\* the println after the loop; the task ends
ListenerCleanup(l) ==
    /\ lpc[l] = "cleanup"
    /\ lpc' = [lpc EXCEPT ![l] = "done"]
    /\ UNCHANGED <<server, sd_main, sends, rx_pos, units, units_at_fire>>

ListenerStep(l) ==
    \/ ListenerPoll(l)
    \/ ListenerSignal(l)
    \/ ListenerCleanup(l)

\* the state in which main calls graceful_shutdown_demo after a run_server
\* with one worker and one request that was handled and collected
ShutdownInit ==
    /\ num_workers = 1
    /\ max_concurrent = 1
    /\ num_requests = 1
    /\ request_q = <<>>
    /\ response_q = <<>>
    /\ permits = 1
    /\ rx_lock = NoWorker
    /\ wpc = [w \in Workers |-> "exited"]
    /\ wreq = [w \in Workers |-> <<>>]
    /\ wresp = [w \in Workers |-> <<>>]
    /\ stats = [total_requests |-> 1, successful_requests |-> 1,
                failed_requests |-> 0]
    /\ generator = [pc |-> "done", i |-> 1]
    /\ collector = [pc |-> "count", received |-> 1]
    /\ monitor = [pc |-> "done"]
    /\ lb_alive = FALSE
    /\ accepted = {1}
    /\ dequeued = <<1>>
    /\ started = [i \in 1 .. MaxRequests |-> IF i = 1 THEN 1 ELSE 0]
    /\ sent = {1}
    /\ collected = <<1>>
    /\ at_close = {}
    /\ late_starts = [w \in Workers |-> 0]
    /\ sd_main = [pc |-> "spawn", i |-> 1]
    /\ sends = 0
    /\ rx_pos = [l \in Listeners |-> 0]
    /\ lpc = [l \in Listeners |-> "unspawned"]
    /\ units = [l \in Listeners |-> 0]
    /\ units_at_fire = [l \in Listeners |-> 0]

ShutdownNext ==
    \/ ShutdownSpawn
    \/ ShutdownFire
    \/ ShutdownJoin
    \/ ShutdownReport
    \/ \E l \in Listeners : ListenerPoll(l)
    \/ \E l \in Listeners : ListenerSignal(l)
    \/ \E l \in Listeners : ListenerWork(l)
    \/ \E l \in Listeners : ListenerCleanup(l)

ShutdownSpec == ShutdownInit /\ [][ShutdownNext]_vars

\* the demo's own steps and the steps of a listener out of select and cleanup
\* are taken once they stay possible; a work unit gets no fairness
ShutdownFairSpec ==
    /\ ShutdownSpec
    /\ WF_vars(ShutdownSpawn)
    /\ WF_vars(ShutdownFire)
    /\ WF_vars(ShutdownJoin)
    /\ WF_vars(ShutdownReport)
    /\ \A l \in Listeners : WF_vars(ListenerStep(l))

\* ---------------------------------------------------------------- claims
Range(s) == {s[k] : k \in 1 .. Len(s)}
NoDuplicates(s) == \A j, k \in 1 .. Len(s) : j # k => s[j] # s[k]
PermitHolders == {w \in Workers : HoldsPermit(w)}
NoWorkerInHandleRequest == \A w \in Workers : wpc[w] \notin {"handle", "sleep"}

\* C1: at most max_concurrent workers hold a semaphore permit, whatever the
\* number of workers is.
C1_PermitHoldersAtMostK == Cardinality(PermitHolders) <= max_concurrent

C1_Witness ==
    /\ num_workers > max_concurrent
    /\ Cardinality(PermitHolders) = max_concurrent
    /\ \E w \in Workers : wpc[w] = "acquire"

\* C2: under fair scheduling, unless the collector's timeout fires, the
\* collector ends by reaching the expected count with exactly num_requests
\* responses received.
C2_AllResponsesCollected ==
    <>(\/ collector.pc = "timeout"
       \/ /\ collector.pc = "count"
          /\ collector.received = num_requests
          /\ Len(collected) = num_requests)

C2_Witness ==
    /\ collector.pc = "count"
    /\ collector.received = num_requests
    /\ num_workers > max_concurrent
    /\ num_requests >= 3

\* C3: the ids the collector has received are pairwise different and were all
\* submitted; once it has received as many as were submitted, the two sets
\* are equal.
C3_CollectedIds ==
    /\ NoDuplicates(collected)
    /\ Range(collected) \subseteq accepted
    /\ (Len(collected) = Cardinality(accepted) => Range(collected) = accepted)

C3_Witness ==
    /\ collector.pc = "count"
    /\ Len(collected) >= 3
    /\ \E j, k \in 1 .. Len(collected) : j < k /\ collected[j] > collected[k]

\* C4: once every worker has terminated, every request whose submit returned
\* Ok has had its Response put on the response channel.
C4_AcceptedYieldsResponse == AllExited => accepted \subseteq sent

\* C5: every request is received by one worker only and handle_request is
\* started at most once for every id.
C5_CompetingConsumers ==
    /\ NoDuplicates(dequeued)
    /\ \A i \in 1 .. MaxRequests : started[i] <= 1
    /\ \A v, w \in Workers :
           (v # w /\ wreq[v] # <<>> /\ wreq[w] # <<>>) => wreq[v][1].id # wreq[w][1].id

C5_Witness ==
    /\ Len(dequeued) >= 3
    /\ \E v, w \in Workers : v # w /\ wpc[v] = "sleep" /\ wpc[w] = "sleep"

\* C6: whenever no worker is inside handle_request, total_requests equals
\* successful_requests + failed_requests.
C6_StatsConsistentWhenDrained ==
    NoWorkerInHandleRequest =>
        stats.total_requests = stats.successful_requests + stats.failed_requests

C6_Witness ==
    /\ NoWorkerInHandleRequest
    /\ stats.failed_requests >= 1
    /\ stats.successful_requests >= 1
    /\ stats.total_requests = num_requests

\* C7: the request channel never holds more than its capacity; while it is
\* full a pending submit does not return; when a submit returns, its request
\* has been appended to the channel.
C7_Backpressure ==
    [][/\ Len(request_q') <= RequestChannelCap
       /\ (generator.pc = "submit" /\ Len(request_q) >= RequestChannelCap)
              => generator' = generator
       /\ (generator.pc = "submit" /\ generator'.pc # "submit")
              => request_q' = Append(request_q, Request(generator.i))]_vars

C7_Witness ==
    /\ generator.pc = "sleep"
    /\ generator.i = RequestChannelCap + 1
    /\ Len(request_q) = RequestChannelCap
    /\ request_q[Len(request_q)].id = generator.i
    /\ Len(dequeued) = 1

\* C10: once every worker has terminated, every request that was queued when
\* the request channel was closed has been handled by a worker.
C10_QueuedAtCloseHandled ==
    AllExited => \A i \in at_close : started[i] >= 1
\* responses built by handle_request whose tx.send returned Err
SendFailures ==
    stats.successful_requests + stats.failed_requests - Cardinality(sent)
        - Cardinality({w \in Workers : wpc[w] = "send"})

\* C11: available_slots() is always between 0 and max_concurrent, also after
\* workers have left their loop because tx.send failed.
C11_AvailableSlotsInRange ==
    /\ available_slots >= 0
    /\ available_slots <= max_concurrent

C11_Witness ==
    /\ num_workers = 2
    /\ AllExited
    /\ SendFailures = 2
    /\ available_slots = max_concurrent

\* C12: a step of the monitor (the call of available_slots) changes nothing
\* but the monitor's own position: semaphore, channels, stats, workers,
\* generator and collector stay as they are.
C12_MonitorObservesOnly ==
    [][monitor' # monitor =>
          UNCHANGED <<demo, config, request_q, response_q, permits, rx_lock, wpc,
                      wreq, wresp, stats, generator, collector, lb_alive,
                      history>>]_vars

C12_Witness ==
    /\ monitor.pc = "done"
    /\ lb_alive
    /\ available_slots < max_concurrent
    /\ request_q # <<>>
    /\ response_q # <<>>

\* C13: a Response carries the id of its request and status 500 exactly for
\* the ids divisible by 7 (7 and 14 among 1..20, so 18 successes and 2
\* failures), whichever worker built it and whatever the interleaving.
ExpectedStatus(i) == IF i \in {7, 14} THEN 500 ELSE 200
ResponsesInFlight ==
    Range(response_q) \cup {wresp[w][1] : w \in {v \in Workers : wresp[v] # <<>>}}

C13_DeterministicFailureRule ==
    /\ \A i \in 1 .. 20 :
           /\ Response(Request(i)).request_id = i
           /\ Response(Request(i)).status = ExpectedStatus(i)
    /\ Cardinality({i \in 1 .. 20 : Response(Request(i)).status = 200}) = 18
    /\ Cardinality({i \in 1 .. 20 : Response(Request(i)).status = 500}) = 2
    /\ \A r \in ResponsesInFlight : r.status = ExpectedStatus(r.request_id)
    /\ NoWorkerInHandleRequest =>
           /\ stats.failed_requests =
                  Cardinality({i \in 1 .. MaxRequests : started[i] >= 1 /\ i \in {7, 14}})
           /\ stats.successful_requests =
                  Cardinality({i \in 1 .. MaxRequests : started[i] >= 1 /\ i \notin {7, 14}})

C13_Witness ==
    /\ num_workers = 2
    /\ wresp[1] # <<>>
    /\ wresp[1][1].status = 500
    /\ wresp[1][1].request_id = 7
    /\ stats.failed_requests = 1
    /\ stats.successful_requests >= 5

\* C14: the collector's received counter is the number of responses it got
\* and never exceeds expected_count; it ends in one of three ways (count
\* reached, stream closed, timeout), by count reached exactly when received
\* equals expected_count, and once ended it stays as it ended.
CollectorEnded == collector.pc \in {"count", "closed", "timeout"}

C14_CollectorTermination ==
    /\ [](/\ collector.pc \in {"recv", "count", "closed", "timeout"}
          /\ collector.received = Len(collected)
          /\ collector.received <= expected_count
          /\ (collector.pc = "count") <=> (collector.received = expected_count))
    /\ [][CollectorEnded => collector' = collector]_vars

C14_Witness ==
    /\ collector.pc = "timeout"
    /\ collector.received >= 1
    /\ collector.received < expected_count
\* a step of the generator's submit or of a worker: with the generator still
\* in submit_request the LoadBalancer cannot be dropped, so these are the only
\* steps that can move a waiting submit or a waiting tx.send
SubmitOrWorkerStep == GeneratorSubmit \/ \E w \in Workers : WorkerStep(w)

\* C15: after the collector's timeout every accepted request is still
\* executed by a worker before the workers end, and a pending submit is never
\* left with neither itself nor any worker able to take a step.
C15_TimeoutLeavesDispatcherRunning ==
    collector.pc = "timeout" =>
        /\ AllExited => \A i \in accepted : started[i] >= 1
        /\ generator.pc = "submit" => ENABLED SubmitOrWorkerStep
\* C16: every permit missing from the semaphore belongs to a worker that is
\* between sem.acquire() and the end of its match arm, so a worker that is
\* idle, waiting for a request or terminated (by a failed send as well) holds
\* none, and with no worker handling a request all max_concurrent permits are
\* available.
C16_PermitsNeverLeak ==
    /\ permits + Cardinality({w \in Workers : wpc[w] \in {"handle", "sleep", "send"}})
           = max_concurrent
    /\ (\A w \in Workers : wpc[w] \in {"lock", "recv", "acquire", "exited"})
           => permits = max_concurrent

C16_Witness ==
    /\ max_concurrent = 2
    /\ SendFailures = 1
    /\ \E w \in Workers : Exited(w)
    /\ \E w \in Workers : wpc[w] = "acquire"
    /\ permits = max_concurrent

\* C17: the step in which a worker's tx.send fails ends that worker only and
\* changes nothing of any other worker; a worker that is not exited and not
\* waiting on the channel, the lock or the semaphore can always take its next
\* step, and a worker in rx.recv() with a request queued can dequeue it.
C17_SendFailureEndsOnlyThatWorker ==
    /\ [][\A w \in Workers :
            (wpc[w] = "send" /\ wpc'[w] = "exited") =>
                \A v \in Workers \ {w} :
                    /\ wpc'[v] = wpc[v]
                    /\ wreq'[v] = wreq[v]
                    /\ wresp'[v] = wresp[v]]_vars
    /\ [](\A v \in Workers :
            \/ wpc[v] \in {"handle", "sleep"}
            \/ (wpc[v] = "recv" /\ request_q # <<>>)
            \/ (wpc[v] = "acquire" /\ permits > 0)
            => ENABLED WorkerStep(v))

C17_Witness ==
    /\ num_workers = 2
    /\ SendFailures = 1
    /\ Exited(0)
    /\ wpc[1] = "recv"
    /\ request_q # <<>>
Signaled == sends > 0
AllListenersDone == \A l \in Listeners : lpc[l] = "done"

\* C18: the signal is only sent once all NumListeners listeners have
\* subscribed and are in their loop, and once it is sent every listener
\* eventually leaves its loop through the shutdown branch and finishes its
\* cleanup.
C18_FireReachesEveryListener ==
    /\ [](Signaled => \A l \in Listeners : lpc[l] # "unspawned")
    /\ (Signaled ~> AllListenersDone)

C18_Witness ==
    /\ Signaled
    /\ \A l \in Listeners : lpc[l] = "waiting" /\ rx_pos[l] < sends

\* C19: the closing report of graceful_shutdown_demo is reached only with
\* every listener task terminated, and it is eventually reached.
C19_ReportAfterEveryListener ==
    /\ [](sd_main.pc \in {"report", "done"} => AllListenersDone)
    /\ <>(sd_main.pc = "done")

C19_Witness ==
    /\ sd_main.pc = "report"
    /\ AllListenersDone
    /\ \E l \in Listeners : units[l] = MaxUnits

\* C20: the coordinator is RUNNING until shutdown_tx.send and SIGNALED from
\* then on, never RUNNING again, and a listener that has taken the shutdown
\* branch does no further work unit and does not return to its loop.
C20_OneWaySignal ==
    /\ [](Signaled <=> sd_main.pc \in {"join", "report", "done"})
    /\ [][(Signaled => Signaled')
            /\ \A l \in Listeners :
                 lpc[l] \in {"cleanup", "done"} =>
                     /\ units'[l] = units[l]
                     /\ lpc'[l] \in {"cleanup", "done"}]_vars

C20_Witness ==
    /\ Signaled
    /\ \E l \in Listeners : lpc[l] = "done" /\ units[l] = 1
    /\ \E l \in Listeners : lpc[l] = "select" /\ units[l] = MaxUnits
\* ids for which handle_request was entered, and those for which it returned
HandledIds == {i \in 1 .. MaxRequests : started[i] >= 1}
InProcessing == {wreq[w][1].id : w \in {v \in Workers : wpc[v] = "sleep"}}
FinishedIds == HandledIds \ InProcessing

\* C23: a request is handled at most once; total_requests counts a request
\* from the moment its processing starts, and once handle_request has
\* returned for it exactly one of successful_requests / failed_requests
\* counts it, failed_requests iff id % 7 = 0.  A step changes the counters
\* only by one record_request (entering the sleep) or by one outcome
\* (leaving it).
C23_StatsOncePerRequest ==
    /\ [](/\ \A i \in 1 .. MaxRequests : started[i] <= 1
          /\ InProcessing \subseteq HandledIds
          /\ stats.total_requests = Cardinality(HandledIds)
          /\ stats.failed_requests =
                 Cardinality({i \in FinishedIds : i % 7 = 0})
          /\ stats.successful_requests =
                 Cardinality({i \in FinishedIds : i % 7 # 0}))
    /\ [][stats' # stats =>
            \E w \in Workers :
                \/ /\ wpc[w] = "handle" /\ wpc'[w] = "sleep"
                   /\ stats' = [stats EXCEPT !.total_requests = @ + 1]
                \/ /\ wpc[w] = "sleep" /\ wpc'[w] = "send"
                   /\ stats' = IF wreq[w][1].id % 7 = 0
                               THEN [stats EXCEPT !.failed_requests = @ + 1]
                               ELSE [stats EXCEPT !.successful_requests = @ + 1]]_vars

C23_Witness ==
    /\ 7 \in InProcessing
    /\ stats.total_requests = 7
    /\ stats.successful_requests = 6
    /\ stats.failed_requests = 0
    /\ \E w \in Workers : wpc[w] = "send" /\ wresp[w][1].request_id = 6

\* C24: in every step each of total_requests, successful_requests and
\* failed_requests keeps its value or grows by exactly 1.
C24_StatsMonotonic ==
    [][\A f \in {"total_requests", "successful_requests", "failed_requests"} :
           stats'[f] \in {stats[f], stats[f] + 1}]_vars

C24_Witness ==
    /\ ~lb_alive
    /\ AllExited
    /\ stats.total_requests = 7
    /\ stats.successful_requests = 6
    /\ stats.failed_requests = 1
    /\ Cardinality(sent) < 7
\* C25: a worker whose handle_request ends with status 500 has incremented
\* failed_requests and holds an ordinary Response; while the response channel
\* has its receiver the worker's next step appends that Response to the
\* channel, gives the permit back and returns to the top of the loop, and that
\* step is possible whenever the channel has room.  A worker leaves the loop
\* from tx.send only when the receiver is gone.
C25_FailureIsOrdinaryResponse ==
    /\ [](\A w \in Workers :
            (wpc[w] = "send" /\ wresp[w][1].status = 500) =>
                /\ wresp[w][1].request_id % 7 = 0
                /\ stats.failed_requests >= 1
                /\ (lb_alive /\ Len(response_q) < ResponseChannelCap)
                       => ENABLED WorkerSendOk(w))
    /\ [][\A w \in Workers :
            (wpc[w] = "send" /\ wresp[w][1].status = 500 /\ wpc'[w] # "send") =>
                IF lb_alive
                THEN /\ wpc'[w] = "lock"
                     /\ response_q' = Append(response_q, wresp[w][1])
                     /\ permits' = permits + 1
                     /\ stats' = stats
                ELSE wpc'[w] = "exited"]_vars

C25_Witness ==
    /\ num_workers = 1
    /\ lb_alive
    /\ wpc[0] = "recv"
    /\ response_q # <<>>
    /\ response_q[1].status = 500
    /\ response_q[1].request_id = 7
    /\ stats.failed_requests = 1
    /\ permits = max_concurrent
LiveWorkers == {w \in Workers : ~Exited(w)}

\* C26: the pool has num_workers workers from the start, an exited worker
\* never runs again, and a worker's step out of its loop is either recv on a
\* closed and empty request channel or a failed tx.send; none happens while
\* the request channel still has its sender.
C26_FixedPool ==
    /\ [](/\ DOMAIN wpc = Workers
          /\ Cardinality(Workers) = num_workers
          /\ Cardinality(LiveWorkers) <= num_workers
          /\ lb_alive => LiveWorkers = Workers)
    /\ [][/\ LiveWorkers' \subseteq LiveWorkers
          /\ \A w \in Workers :
               (~Exited(w) /\ wpc'[w] = "exited") =>
                   /\ ~lb_alive
                   /\ \/ wpc[w] = "recv" /\ request_q = <<>>
                      \/ wpc[w] = "send"]_vars

C26_Witness ==
    /\ num_workers = 2
    /\ AllExited
    /\ SendFailures = 1
    /\ Cardinality(sent) = 2

QueuedIds == [k \in 1 .. Len(request_q) |-> request_q[k].id]

\* C27: submits complete in increasing id order, and the ids received by the
\* workers, taken over all workers in the order of the receives, followed by
\* the ids still queued, are the accepted ids in that same order: the k-th
\* receive hands out the k-th accepted request.
C27_RequestChannelFifo ==
    /\ [](/\ \A k \in 1 .. Len(dequeued) : dequeued[k] = k
          /\ \A k \in 1 .. Len(request_q) : QueuedIds[k] = Len(dequeued) + k
          /\ Range(dequeued) \cup Range(QueuedIds) \subseteq accepted
          /\ lb_alive => Len(dequeued) + Len(request_q) = Cardinality(accepted))
    /\ [][accepted' # accepted =>
            \E i \in 1 .. MaxRequests :
                /\ accepted' = accepted \cup {i}
                /\ \A j \in accepted : j < i
                /\ request_q' = Append(request_q, Request(i))]_vars

C27_Witness ==
    /\ num_workers = 2
    /\ dequeued = <<1, 2, 3>>
    /\ Len(request_q) = 2
    /\ wpc[0] = "sleep" /\ wreq[0][1].id = 3
    /\ wpc[1] = "sleep" /\ wreq[1][1].id = 2

\* C28: no worker's Response is held back for another's: whenever the
\* response channel has room, every worker waiting in tx.send can be the next
\* to send, whatever ids the other workers hold; so with two workers and two
\* permits the collector can get a later id before an earlier one.
C28_CompletionOrderFree ==
    (lb_alive /\ Len(response_q) < ResponseChannelCap) =>
        \A w \in Workers : wpc[w] = "send" => ENABLED WorkerSendOk(w)

C28_Witness ==
    /\ num_workers >= 2
    /\ max_concurrent >= 2
    /\ collected = <<2>>
    /\ 1 \notin sent
    /\ \E w \in Workers : wpc[w] = "sleep" /\ wreq[w][1].id = 1

\* C29: the generator's submits carry the ids 1, 2, 3, ... in this order,
\* each once and none beyond num_requests; a generator whose submit returned
\* Err, or whose loop is over, submits nothing more.
C29_GeneratorIds ==
    /\ [](/\ accepted = 1 .. Cardinality(accepted)
          /\ Cardinality(accepted) <= num_requests
          /\ generator.i \in 1 .. num_requests
          /\ generator.pc = "submit" => accepted = 1 .. (generator.i - 1)
          /\ generator.pc \in {"sleep", "done"} => accepted = 1 .. generator.i)
    /\ [][/\ (generator.pc = "submit" /\ generator'.pc = "sleep") =>
                 /\ generator.i \notin accepted
                 /\ accepted' = accepted \cup {generator.i}
                 /\ request_q' = Append(request_q, Request(generator.i))
          /\ (generator.pc = "submit" /\ generator'.pc = "failed") =>
                 /\ accepted' = accepted
                 /\ request_q' = request_q
          /\ generator.pc \in {"failed", "done"} =>
                 /\ generator' = generator
                 /\ accepted' = accepted]_vars

C29_Witness ==
    /\ generator.pc = "done"
    /\ num_requests = 3
    /\ accepted = {1, 2, 3}
    /\ dequeued = <<1, 2, 3>>
    /\ lb_alive

\* C30: the Mutex around request_rx is held by the one worker that is inside
\* rx.recv() and by nobody else: never by a worker that waits for a permit,
\* runs handle_request or sends, so a worker at rx.lock() gets the lock
\* whenever no worker is inside rx.recv().
C30_LockOnlyAcrossRecv ==
    /\ Cardinality({w \in Workers : wpc[w] = "recv"}) <= 1
    /\ \A w \in Workers : rx_lock = w <=> wpc[w] = "recv"
    /\ \A w \in Workers :
           (wpc[w] = "lock" /\ \A v \in Workers : wpc[v] # "recv")
               => ENABLED WorkerLock(w)

C30_Witness ==
    /\ num_workers = 2
    /\ wpc[0] = "send"
    /\ wpc[1] = "recv"
    /\ rx_lock = 1
    /\ request_q # <<>>
    /\ lb_alive
\* C31: an await of the timeout-wrapped get_response can always resolve
\* (by a Response, by None or by the timeout), and with the collector task
\* and its timer running the collector loop ends in every execution, whatever
\* the workers and the generator do.
C31_CollectorTerminates ==
    /\ [](collector.pc = "recv" => ENABLED CollectorStep)
    /\ <>CollectorEnded

C31_Witness ==
    /\ collector.pc = "timeout"
    /\ AllExited
    /\ Cardinality(sent) < num_requests
    /\ Cardinality(accepted) = num_requests
InLoop(l) == lpc[l] \in {"select", "waiting"}

\* C32: a listener enters its cleanup only by taking the recv arm with a
\* value sent to it; from then on it does no work unit, goes from cleanup to
\* done and nowhere else, stays done, and it does reach done.
C32_CleanupOnceAfterSignal ==
    /\ [](\A l \in Listeners :
            lpc[l] \in {"cleanup", "done"} => Signaled /\ rx_pos[l] = sends)
    /\ [][\A l \in Listeners :
            /\ (lpc[l] # "cleanup" /\ lpc'[l] = "cleanup") =>
                   /\ InLoop(l)
                   /\ rx_pos[l] < sends
                   /\ rx_pos'[l] = rx_pos[l] + 1
            /\ lpc[l] = "cleanup" =>
                   lpc'[l] \in {"cleanup", "done"} /\ units'[l] = units[l]
            /\ lpc[l] = "done" =>
                   lpc'[l] = "done" /\ units'[l] = units[l]]_vars
    /\ \A l \in Listeners : (lpc[l] = "cleanup") ~> (lpc[l] = "done")

C32_Witness ==
    /\ lpc[2] = "cleanup"
    /\ units[2] >= 1
    /\ lpc[1] = "waiting"
    /\ rx_pos[1] < sends
    /\ lpc[3] = "done"

\* C38: the value sent stays with every listener that is still in its loop,
\* in select or between a work unit and the next select, until that listener
\* takes the recv arm; every listener leaves its loop after the send, having
\* printed at most one work unit more than it had at the send.
C38_NoLostWakeup ==
    /\ [](Signaled =>
            \A l \in Listeners :
                /\ units[l] <= units_at_fire[l] + 1
                /\ InLoop(l) => rx_pos[l] < sends)
    /\ \A l \in Listeners : Signaled ~> ~InLoop(l)

C38_Witness ==
    /\ Signaled
    /\ lpc[1] = "select" /\ units[1] = units_at_fire[1] + 1
    /\ lpc[2] = "select" /\ units[2] = units_at_fire[2] /\ units[2] >= 1
    /\ lpc[3] = "done" /\ units[3] = units_at_fire[3] + 1
HeldByWorker == {w \in Workers : wreq[w] # <<>> \/ wresp[w] # <<>>}
HeldIds ==
    {wreq[w][1].id : w \in {v \in Workers : wreq[v] # <<>>}}
        \cup {wresp[w][1].request_id : w \in {v \in Workers : wresp[v] # <<>>}}
OutboundIds == {response_q[k].request_id : k \in 1 .. Len(response_q)}

\* C33: while the LoadBalancer is alive, the accepted ids are exactly the ids
\* queued in the request channel, held by a worker, queued in the response
\* channel or collected, and their number is the sum of the four counts, so
\* every accepted id is in one place only.
C33_RequestConservation ==
    lb_alive =>
        /\ \A w \in Workers : wreq[w] = <<>> \/ wresp[w] = <<>>
        /\ accepted = Range(QueuedIds) \cup HeldIds \cup OutboundIds
                          \cup Range(collected)
        /\ Cardinality(accepted) =
               Len(request_q) + Cardinality(HeldByWorker) + Len(response_q)
                   + Len(collected)

C33_Witness ==
    /\ lb_alive
    /\ Len(request_q) = 2
    /\ Cardinality(HeldByWorker) = 2
    /\ response_q # <<>>
    /\ Len(collected) = 2

\* C34: the available permits plus the workers between sem.acquire() and the
\* end of their tx.send are max_concurrent in every state; a permit comes
\* back only in the step in which a worker's tx.send completes or fails, so a
\* worker suspended on a full response channel still has its permit.
C34_SemaphoreAccounting ==
    /\ [](/\ available_slots + Cardinality(PermitHolders) = max_concurrent
          /\ \A w \in Workers :
               (wpc[w] = "send" /\ lb_alive /\ Len(response_q) = ResponseChannelCap)
                   => available_slots <= max_concurrent - 1)
    /\ [][/\ permits' > permits =>
               \E w \in Workers :
                   wpc[w] = "send" /\ wpc'[w] \in {"lock", "exited"}
          /\ permits' < permits =>
               \E w \in Workers : wpc[w] = "acquire" /\ wpc'[w] = "handle"]_vars

C34_Witness ==
    /\ lb_alive
    /\ CollectorEnded
    /\ Len(response_q) = ResponseChannelCap
    /\ max_concurrent = 2
    /\ available_slots = 0
    /\ \A w \in Workers : wpc[w] = "send"

AtAcquire == {w \in Workers : wpc[w] = "acquire"}

\* C35: a worker at sem.acquire() already holds the request it received; the
\* requests received and not yet sent are at most num_workers while the
\* LoadBalancer is alive, and the workers at sem.acquire() together with the
\* permits in use never exceed num_workers, so with every permit in use at
\* most max(num_workers - max_concurrent, 0) workers hold a request without a
\* permit.
C35_DequeueBeforePermit ==
    /\ \A w \in AtAcquire :
           wreq[w] # <<>> /\ wreq[w][1].id \in Range(dequeued)
    /\ lb_alive => Len(dequeued) - Cardinality(sent) <= num_workers
    /\ Cardinality(AtAcquire) + (max_concurrent - permits) <= num_workers
    /\ permits = 0 =>
           Cardinality(AtAcquire) <=
               IF num_workers > max_concurrent
               THEN num_workers - max_concurrent ELSE 0

C35_Witness ==
    /\ num_workers = 2
    /\ max_concurrent = 1
    /\ permits = 0
    /\ wpc[0] = "acquire"
    /\ wpc[1] = "send"
    /\ Len(dequeued) - Cardinality(sent) = 2

\* C36: while a handle of the LoadBalancer is alive no worker has exited,
\* the request channel has its receiver and the response channel its
\* senders, submit_request has not returned Err and get_response has not
\* returned None; a step in which a worker exits, a submit fails or the
\* collector sees the channel closed is taken only after the drop.
C36_NoCloseWhileHandleAlive ==
    /\ [](lb_alive =>
            /\ \A w \in Workers : ~Exited(w)
            /\ ~RequestReceiverDropped
            /\ ~ResponseSendersDropped
            /\ generator.pc # "failed"
            /\ collector.pc # "closed")
    /\ [][(\/ \E w \in Workers : ~Exited(w) /\ wpc'[w] = "exited"
           \/ generator.pc # "failed" /\ generator'.pc = "failed"
           \/ collector.pc # "closed" /\ collector'.pc = "closed")
              => ~lb_alive]_vars

C36_Witness ==
    /\ lb_alive
    /\ generator.pc = "done"
    /\ collector.pc = "timeout"
    /\ monitor.pc = "done"
    /\ request_q = <<>>
    /\ \E w \in Workers : wpc[w] = "recv"
    /\ \E w \in Workers : wpc[w] = "send"

InHandleRequestSleep == {w \in Workers : wpc[w] = "sleep"}

\* C37: successful + failed <= total <= successful + failed + max_concurrent,
\* and the difference is the number of workers between record_request and
\* the status decision of handle_request.
C37_StatsInFlight ==
    /\ stats.successful_requests + stats.failed_requests <= stats.total_requests
    /\ stats.total_requests
           <= stats.successful_requests + stats.failed_requests + max_concurrent
    /\ stats.total_requests
           - (stats.successful_requests + stats.failed_requests)
           = Cardinality(InHandleRequestSleep)

C37_Witness ==
    /\ max_concurrent = 2
    /\ Cardinality(InHandleRequestSleep) = 2
    /\ stats.total_requests = 4
    /\ stats.successful_requests = 2

\* C39: once the LoadBalancer is dropped every worker terminates under fair
\* scheduling, no worker begins more than one handle_request after the drop,
\* and with all workers terminated every permit is back and
\* total = successful + failed.
C39_WorkersEndAfterDrop ==
    /\ [](\A w \in Workers : late_starts[w] <= 1)
    /\ [](AllExited =>
            /\ permits = max_concurrent
            /\ stats.total_requests
                   = stats.successful_requests + stats.failed_requests)
    /\ (~lb_alive ~> AllExited)

C39_Witness ==
    /\ num_workers = 2
    /\ AllExited
    /\ late_starts[0] = 1
    /\ late_starts[1] = 1
    /\ permits = max_concurrent
    /\ Cardinality(at_close) = 2
====
